---- MODULE Spec2Model ----
(***************************************************************************)
(* Restaurant reservation API: the reservation routes (create, read,      *)
(* update, cancel, delete) and the table routes they share state with,    *)
(* over a relational Store holding User, Table and Reservation records.   *)
(*                                                                         *)
(* Every handler is an async function: it runs without interruption up to *)
(* its next `await prisma....` and resumes when the Store has executed    *)
(* that call.  One action of this module is one Store call of one request *)
(* together with the handler code that runs up to the next call or up to  *)
(* the response.  A specification in which a request only starts when no  *)
(* other is in flight gives the run-to-completion (sequential) behaviour. *)
(***************************************************************************)
EXTENDS Integers, Sequences, FiniteSets, TLC

\* ------------------------------------------------------------------ bounds
\* Requests the server accepts before the model stops: over the whole API,
\* over the three engine operations alone, and with failing Store calls.
MaxReq == 4
MaxEngineReq == 5
MaxFaultyReq == 3
\* Requests accepted over the table and user routes.
MaxCrudReq == 3
\* Requests accepted when requests interleave.
MaxInterleavedReq == 2
\* Concurrent request slots of the interleaved specifications.
NumProcs == 2

Procs == 1..NumProcs

\* ------------------------------------------------------- values and inputs
\* SQL NULL of Reservation.tableId (Int?); ids start at 1.
Null == 0

\* Result of new Date(s) for a string that is no date (Invalid Date).
InvalidDate == 0

\* req.body.people as sent.  A JSON number n is [kind |-> "number"] with
\* halves = 2 * n, so that 2.5 is a value; "numstr" is a numeric string
\* such as "2"; "text" a string that is no number; "undefined" a missing
\* field.
Num(h) == [kind |-> "number", halves |-> h]
Undefined == [kind |-> "undefined", halves |-> 0]

\* Bodies of POST /api/reservations.  In date and time "" stands for a
\* missing or empty field, in userId 0 for a missing field (or the number
\* 0).  The well-formed bodies combine date and time strings (two
\* spellings of one day among them) with party sizes 2, 4 and 5; the
\* others change one field of a well-formed body.
Body(d, t, n, u) == [date |-> d, time |-> t, people |-> n, userId |-> u]

WellFormedBodies ==
    { Body(dt[1], dt[2], n, 1) :
        dt \in { <<"2025-06-15", "19:00">>, <<"2025-06-15", "7:00 PM">>,
                 <<"2025-06-16", "19:00">> },
        n \in { Num(4), Num(8), Num(10) } }

CreateBodies ==
    WellFormedBodies \cup
    { Body("2025-06-15T00:00:00.000Z", "19:00", Num(4), 1),
      Body("2025-06-15", "19:00", Num(5), 1),
      Body("", "19:00", Num(4), 1),
      Body("someday", "19:00", Num(4), 1),
      Body("2025-06-15", "", Num(4), 1),
      Body("2025-06-15", "19:00", Undefined, 1),
      Body("2025-06-15", "19:00", [kind |-> "text", halves |-> 0], 1),
      Body("2025-06-15", "19:00", [kind |-> "numstr", halves |-> 4], 1),
      Body("2025-06-15", "19:00", Num(-2), 1),
      Body("2025-06-15", "19:00", Num(0), 1),
      Body("2025-06-15", "19:00", Num(4), 0),
      Body("2025-06-15", "19:00", Num(4), 7) }

\* Tables and users the Store is seeded with.
TableIds == {1, 2}
Capacity(t) == IF t = 1 THEN 2 ELSE 4
SeedUsers == {1}
SeedUser ==
    [ username |-> "Alice", email |-> "alice@example.com",
      password |-> "password123", isAdmin |-> FALSE ]

\* ------------------------------------------------------------ JavaScript
\* new Date(date): the instant a date string denotes, as yyyymmdd.
NewDate(s) ==
    CASE s = "2025-06-15" -> 20250615
      [] s = "2025-06-15T00:00:00.000Z" -> 20250615
      [] s = "2025-06-16" -> 20250616
      [] OTHER -> InvalidDate

\* !people
Falsy(v) == v.kind = "undefined" \/ (v.kind = "number" /\ v.halves = 0)

\* people <= 0 (a string is converted to a number; NaN compares false)
LeqZero(v) == v.kind \in {"number", "numstr"} /\ v.halves <= 0

\* parseInt(people) is NaN
ParseIntNaN(v) == v.kind \in {"undefined", "text"}

\* parseInt(people): digits up to the decimal point, truncating toward 0
ParseInt(v) == IF v.halves >= 0 THEN v.halves \div 2 ELSE -((-v.halves) \div 2)

\* --------------------------------------------------------------- state
VARIABLES
    users,          \* User records by id
    tables,         \* Table records by id: [capacity, isAvailable]
    reservations,   \* Reservation records by id
    nextResId,      \* autoincrement of Reservation.id
    nextUserId,     \* autoincrement of User.id
    nextTableId,    \* autoincrement of Table.id
    deleted,        \* ids of the Reservation records a delete has removed
    overtaken,      \* tables of the reservations that were cancelled or
                    \* deleted before their create had flagged the table
    req,            \* per request slot: the handler's position and locals
    served          \* number of requests accepted so far

vars == <<users, tables, reservations, nextResId, deleted, overtaken,
          nextUserId, nextTableId, req, served>>

store == <<users, tables, reservations, nextResId, deleted, overtaken, nextUserId, nextTableId>>

Active == {"booked", "seated"}

\* Body of PUT /api/reservations/:id and of the table and user routes: ""
\* and the undefined value stand for a field that was not sent.  nameType
\* is typeof name; hasAvailable tells whether isAvailable was sent as a
\* boolean; isAdmin is "undefined" (not sent), "true", "false" or "text"
\* (a value that is no boolean).
NoBody ==
    [ date |-> "", time |-> "", people |-> Undefined,
      status |-> "", name |-> "", nameType |-> "undefined",
      capacity |-> Undefined,
      hasAvailable |-> FALSE, isAvailable |-> FALSE,
      username |-> "", email |-> "", password |-> "", isAdmin |-> "undefined" ]

IdleReq ==
    [ op |-> "none", pc |-> "idle",
      date |-> "", time |-> "", people |-> Num(0), userId |-> 0, id |-> 0,
      body |-> NoBody,
      table |-> Null, tableId |-> Null, created |-> Null,
      status |-> 0, message |-> "", calls |-> <<>>,
      miss |-> FALSE, again |-> FALSE, answers |-> 0,
      preTables |-> <<>>, preReservations |-> <<>>, preUsers |-> <<>> ]

Init ==
    /\ users = [u \in SeedUsers |-> SeedUser]
    /\ tables = [t \in TableIds |->
                    [name |-> "Table", capacity |-> Capacity(t), isAvailable |-> TRUE]]
    /\ reservations = <<>>
    /\ nextResId = 1
    /\ nextUserId = 2
    /\ nextTableId = 3
    /\ deleted = {}
    /\ overtaken = {}
    /\ req = [p \in Procs |-> IdleReq]
    /\ served = 0

\* ------------------------------------------------------------- responses
\* res.status(code).json(...) / res.status(204).send()
Respond(r, code, msg) ==
    [r EXCEPT !.pc = "done", !.status = code, !.message = msg, !.answers = @ + 1]

\* catch (error) { next(error) } into the error middleware:
\* status err.status || 500, message err.message || 'Internal server error'
ErrorMiddleware(r, err) ==
    Respond(r, IF err.status # 0 THEN err.status ELSE 500,
               IF err.message # "" THEN err.message ELSE "Internal server error")

\* An error thrown by the Store client: it carries a message and no status.
PrismaError(what) == [status |-> 0, message |-> what]

HttpError(code, msg) == [status |-> code, message |-> msg]

\* The handler of slot p is waiting for Store call `call` of operation `op`.
At(p, op, call) == req[p].op = op /\ req[p].pc = call

\* The Store call the handler waits for has been executed.
Called(r) == [r EXCEPT !.calls = Append(@, r.pc)]

\* The Store call signalled that the record to update or delete does not
\* exist (error code P2025).
Missed(r) == [r EXCEPT !.miss = TRUE]

Begin(p, op, first) ==
    [IdleReq EXCEPT !.op = op, !.pc = first,
                    !.preTables = tables, !.preReservations = reservations,
                    !.preUsers = users]

\* Slot p holds no request that still runs: none yet, one that was
\* answered, or one whose handler ended without an answer.
Free(p) == req[p].pc \in {"idle", "done", "lost"}

\* Reservation ids a request may name in its path: the ids handed out so
\* far and one that never was.
ResIds == 1..nextResId

\* The server accepts one more request, up to max.
Accept(max) == served < max /\ served' = served + 1

\* --------------------------------------------- POST /api/reservations
\* Lines 9-15: destructure the body and validate it.
CreateValid(date, time, people, userId) ==
    ~(date = "" \/ time = "" \/ Falsy(people) \/ LeqZero(people) \/ userId = 0)

CreateReservation(p, date, time, people, userId) ==
    /\ Free(p)
    /\ LET r == [Begin(p, "create", "table.findFirst") EXCEPT
                    !.date = date, !.time = time, !.people = people, !.userId = userId]
       IN req' = [req EXCEPT ![p] =
            IF CreateValid(date, time, people, userId)
            THEN r
            ELSE ErrorMiddleware(r, HttpError(400,
                    "Date, time, people (positive number), and userId are required"))]
    /\ UNCHANGED store

\* Lines 18-29: prisma.table.findFirst without orderBy returns any one of
\* the matching rows.
Candidates(people) ==
    { t \in DOMAIN tables :
        tables[t].capacity >= ParseInt(people) /\ tables[t].isAvailable }

CreateTableFindFirst(p) ==
    /\ At(p, "create", "table.findFirst")
    /\ UNCHANGED served
    /\ LET r == Called(req[p]) IN
       IF ParseIntNaN(r.people)
       THEN req' = [req EXCEPT ![p] =
                ErrorMiddleware(r, PrismaError("Invalid value for argument gte"))]
       ELSE IF Candidates(r.people) = {}
       THEN req' = [req EXCEPT ![p] =
                ErrorMiddleware(r, HttpError(400, "No available table for this party size"))]
       ELSE \E t \in Candidates(r.people) :
                req' = [req EXCEPT ![p] = [r EXCEPT !.table = t, !.pc = "reservation.findFirst"]]
    /\ UNCHANGED store

\* A conflict check that looks for seated reservations only.
ConflictingSeatedOnly(t, d, time) ==
    { x \in DOMAIN reservations :
        /\ reservations[x].tableId = t
        /\ reservations[x].date = d
        /\ reservations[x].time = time
        /\ reservations[x].status = "seated" }

\* Lines 32-45: the conflict check.
Conflicting(t, d, time) ==
    { x \in DOMAIN reservations :
        /\ reservations[x].tableId = t
        /\ reservations[x].date = d
        /\ reservations[x].time = time
        /\ reservations[x].status \in Active }

CreateReservationFindFirst(p) ==
    /\ At(p, "create", "reservation.findFirst")
    /\ UNCHANGED served
    /\ LET r == Called(req[p]) IN
       req' = [req EXCEPT ![p] =
            IF NewDate(r.date) = InvalidDate
            THEN ErrorMiddleware(r, PrismaError("Provided Date object is invalid"))
            ELSE IF Conflicting(r.table, NewDate(r.date), r.time) # {}
            THEN ErrorMiddleware(r, HttpError(400, "Table is already reserved for this time"))
            ELSE [r EXCEPT !.pc = "reservation.create"]]
    /\ UNCHANGED store

\* A record that is not bound to the selected table.
NewReservationUnbound(r) ==
    [ date |-> NewDate(r.date), time |-> r.time, people |-> ParseInt(r.people),
      status |-> "booked", userId |-> r.userId, tableId |-> Null ]

\* Lines 48-61: insert the reservation.  userId and tableId are foreign
\* keys: the insert fails when the row they name does not exist.
NewReservation(r) ==
    [ date |-> NewDate(r.date), time |-> r.time, people |-> ParseInt(r.people),
      status |-> "booked", userId |-> r.userId, tableId |-> r.table ]

CreateReservationCreate(p) ==
    /\ At(p, "create", "reservation.create")
    /\ UNCHANGED served
    /\ LET r == Called(req[p]) IN
       IF r.userId \notin DOMAIN users \/ r.table \notin DOMAIN tables
       THEN /\ req' = [req EXCEPT ![p] =
                    ErrorMiddleware(r, PrismaError("Foreign key constraint failed"))]
            /\ UNCHANGED store
       ELSE /\ reservations' =
                    [x \in DOMAIN reservations \cup {nextResId} |->
                        IF x = nextResId THEN NewReservation(r) ELSE reservations[x]]
            /\ nextResId' = nextResId + 1
            /\ req' = [req EXCEPT ![p] =
                    [r EXCEPT !.created = nextResId, !.pc = "table.update"]]
            /\ UNCHANGED <<users, tables, deleted, overtaken, nextUserId, nextTableId>>

\* A table update that writes the flag the wrong way round.
CreateTableUpdateLeavesAvailable(p) ==
    /\ At(p, "create", "table.update")
    /\ UNCHANGED served
    /\ LET r == Called(req[p]) IN
       /\ tables' = [tables EXCEPT ![r.table].isAvailable = TRUE]
       /\ req' = [req EXCEPT ![p] = Respond(r, 201, "")]
       /\ UNCHANGED <<users, reservations, nextResId, deleted, overtaken, nextUserId, nextTableId>>

\* A table update without where clause: every table is marked unavailable.
CreateTableUpdateMany(p) ==
    /\ At(p, "create", "table.update")
    /\ UNCHANGED served
    /\ LET r == Called(req[p]) IN
       /\ tables' = [t \in DOMAIN tables |-> [tables[t] EXCEPT !.isAvailable = FALSE]]
       /\ req' = [req EXCEPT ![p] = Respond(r, 201, "")]
       /\ UNCHANGED <<users, reservations, nextResId, deleted, overtaken, nextUserId, nextTableId>>

\* Lines 64-69: mark the table unavailable and answer 201.
CreateTableUpdate(p) ==
    /\ At(p, "create", "table.update")
    /\ UNCHANGED served
    /\ LET r == Called(req[p]) IN
       IF r.table \notin DOMAIN tables
       THEN /\ req' = [req EXCEPT ![p] =
                    ErrorMiddleware(Missed(r), PrismaError("Record to update not found"))]
            /\ UNCHANGED store
       ELSE /\ tables' = [tables EXCEPT ![r.table].isAvailable = FALSE]
            /\ req' = [req EXCEPT ![p] = Respond(r, 201, "")]
            /\ UNCHANGED <<users, reservations, nextResId, deleted, overtaken, nextUserId, nextTableId>>

\* --------------------------------------- PUT /api/reservations/:id/cancel
\* The table of reservation id, when the create that inserted it has still
\* to flag that table unavailable.
Overtakes(id) ==
    { req[q].table : q \in { c \in Procs : /\ At(c, "create", "table.update")
                                            /\ req[c].created = id } }

\* The request repeats the cancel that slot p has just answered with 200.
Repeats(p, id) ==
    /\ req[p].op = "cancel"
    /\ req[p].pc = "done"
    /\ req[p].status = 200
    /\ req[p].id = id

CancelReservation(p, id) ==
    /\ Free(p)
    /\ req' = [req EXCEPT ![p] =
            [Begin(p, "cancel", "reservation.findUnique") EXCEPT
                !.id = id, !.again = Repeats(p, id)]]
    /\ UNCHANGED store

\* A lookup whose miss is not checked: the handler goes on to the update.
CancelFindUniqueNoCheck(p) ==
    /\ At(p, "cancel", "reservation.findUnique")
    /\ UNCHANGED served
    /\ LET r == Called(req[p]) IN
       req' = [req EXCEPT ![p] =
            [r EXCEPT !.tableId = IF r.id \in DOMAIN reservations
                                  THEN reservations[r.id].tableId ELSE Null,
                      !.pc = "reservation.update"]]
    /\ UNCHANGED store

\* Lines 134-141: look the reservation up; keep its tableId.
CancelFindUnique(p) ==
    /\ At(p, "cancel", "reservation.findUnique")
    /\ UNCHANGED served
    /\ LET r == Called(req[p]) IN
       req' = [req EXCEPT ![p] =
            IF r.id \notin DOMAIN reservations
            THEN ErrorMiddleware(r, HttpError(404, "Reservation not found"))
            ELSE [r EXCEPT !.tableId = reservations[r.id].tableId,
                           !.pc = "reservation.update"]]
    /\ UNCHANGED store

\* Lines 143-150: write status cancelled; the error of a missing record
\* (P2025) is not mapped by this handler.
CancelUpdate(p) ==
    /\ At(p, "cancel", "reservation.update")
    /\ UNCHANGED served
    /\ LET r == Called(req[p]) IN
       IF r.id \notin DOMAIN reservations
       THEN /\ req' = [req EXCEPT ![p] =
                    ErrorMiddleware(Missed(r), PrismaError("Record to update not found"))]
            /\ UNCHANGED store
       ELSE /\ reservations' = [reservations EXCEPT ![r.id].status = "cancelled"]
            /\ overtaken' = overtaken \cup Overtakes(r.id)
            /\ req' = [req EXCEPT ![p] =
                    IF r.tableId # Null
                    THEN [r EXCEPT !.pc = "table.update"]
                    ELSE Respond(r, 200, "")]
            /\ UNCHANGED <<users, tables, nextResId, deleted, nextUserId, nextTableId>>

\* A cancel that answers without freeing the table.
CancelTableUpdateNoWrite(p) ==
    /\ At(p, "cancel", "table.update")
    /\ UNCHANGED served
    /\ req' = [req EXCEPT ![p] = Respond(Called(req[p]), 200, "")]
    /\ UNCHANGED store

\* A cancel that flips the flag of the table instead of setting it.
CancelTableUpdateToggles(p) ==
    /\ At(p, "cancel", "table.update")
    /\ UNCHANGED served
    /\ LET r == Called(req[p]) IN
       /\ tables' = [tables EXCEPT ![r.tableId].isAvailable = ~@]
       /\ req' = [req EXCEPT ![p] = Respond(r, 200, "")]
       /\ UNCHANGED <<users, reservations, nextResId, deleted, overtaken, nextUserId, nextTableId>>

\* Lines 151-157: mark the table of the looked-up reservation available.
CancelTableUpdate(p) ==
    /\ At(p, "cancel", "table.update")
    /\ UNCHANGED served
    /\ LET r == Called(req[p]) IN
       IF r.tableId \notin DOMAIN tables
       THEN /\ req' = [req EXCEPT ![p] =
                    ErrorMiddleware(Missed(r), PrismaError("Record to update not found"))]
            /\ UNCHANGED store
       ELSE /\ tables' = [tables EXCEPT ![r.tableId].isAvailable = TRUE]
            /\ req' = [req EXCEPT ![p] = Respond(r, 200, "")]
            /\ UNCHANGED <<users, reservations, nextResId, deleted, overtaken, nextUserId, nextTableId>>

\* ------------------------------------------ DELETE /api/reservations/:id
DeleteReservation(p, id) ==
    /\ Free(p)
    /\ req' = [req EXCEPT ![p] = [Begin(p, "delete", "reservation.findUnique") EXCEPT !.id = id]]
    /\ UNCHANGED store

\* Lines 166-173
DeleteFindUnique(p) ==
    /\ At(p, "delete", "reservation.findUnique")
    /\ UNCHANGED served
    /\ LET r == Called(req[p]) IN
       req' = [req EXCEPT ![p] =
            IF r.id \notin DOMAIN reservations
            THEN ErrorMiddleware(r, HttpError(404, "Reservation not found"))
            ELSE [r EXCEPT !.tableId = reservations[r.id].tableId,
                           !.pc = "reservation.delete"]]
    /\ UNCHANGED store

\* A delete that marks the record cancelled instead of removing it.
DeleteDeleteSoft(p) ==
    /\ At(p, "delete", "reservation.delete")
    /\ UNCHANGED served
    /\ LET r == Called(req[p]) IN
       /\ reservations' = [reservations EXCEPT ![r.id].status = "cancelled"]
       /\ deleted' = deleted \cup {r.id}
       /\ req' = [req EXCEPT ![p] =
               IF r.tableId # Null
               THEN [r EXCEPT !.pc = "table.update"]
               ELSE Respond(r, 204, "")]
       /\ UNCHANGED <<users, tables, nextResId, overtaken, nextUserId, nextTableId>>

\* Lines 175-180
DeleteDelete(p) ==
    /\ At(p, "delete", "reservation.delete")
    /\ UNCHANGED served
    /\ LET r == Called(req[p]) IN
       IF r.id \notin DOMAIN reservations
       THEN /\ req' = [req EXCEPT ![p] =
                    ErrorMiddleware(Missed(r), PrismaError("Record to delete does not exist"))]
            /\ UNCHANGED store
       ELSE /\ reservations' = [x \in DOMAIN reservations \ {r.id} |-> reservations[x]]
            /\ deleted' = deleted \cup {r.id}
            /\ overtaken' = overtaken \cup Overtakes(r.id)
            /\ req' = [req EXCEPT ![p] =
                    IF r.tableId # Null
                    THEN [r EXCEPT !.pc = "table.update"]
                    ELSE Respond(r, 204, "")]
            /\ UNCHANGED <<users, tables, nextResId, nextUserId, nextTableId>>

\* A delete that answers without freeing the table.
DeleteTableUpdateNoWrite(p) ==
    /\ At(p, "delete", "table.update")
    /\ UNCHANGED served
    /\ req' = [req EXCEPT ![p] = Respond(Called(req[p]), 204, "")]
    /\ UNCHANGED store

\* Lines 181-187
DeleteTableUpdate(p) ==
    /\ At(p, "delete", "table.update")
    /\ UNCHANGED served
    /\ LET r == Called(req[p]) IN
       IF r.tableId \notin DOMAIN tables
       THEN /\ req' = [req EXCEPT ![p] =
                    ErrorMiddleware(Missed(r), PrismaError("Record to update not found"))]
            /\ UNCHANGED store
       ELSE /\ tables' = [tables EXCEPT ![r.tableId].isAvailable = TRUE]
            /\ req' = [req EXCEPT ![p] = Respond(r, 204, "")]
            /\ UNCHANGED <<users, reservations, nextResId, deleted, overtaken, nextUserId, nextTableId>>

\* --------------------------------------------- GET /api/reservations/:id
GetReservation(p, id) ==
    /\ Free(p)
    /\ req' = [req EXCEPT ![p] = [Begin(p, "get", "reservation.findUnique") EXCEPT !.id = id]]
    /\ UNCHANGED store

\* Lines 91-100
GetFindUnique(p) ==
    /\ At(p, "get", "reservation.findUnique")
    /\ UNCHANGED served
    /\ LET r == Called(req[p]) IN
       req' = [req EXCEPT ![p] =
            IF r.id \notin DOMAIN reservations
            THEN ErrorMiddleware(r, HttpError(404, "Reservation not found"))
            ELSE Respond(r, 200, "")]
    /\ UNCHANGED store

\* --------------------------------------------- PUT /api/reservations/:id
\* Bodies of the generic update that requests send.
PutBodies ==
    { NoBody,
      [NoBody EXCEPT !.status = "seated"],
      [NoBody EXCEPT !.status = "booked"],
      [NoBody EXCEPT !.status = "cancelled"],
      [NoBody EXCEPT !.time = "7:00 PM"],
      [NoBody EXCEPT !.date = "2025-06-16"],
      [NoBody EXCEPT !.people = Num(12)] }

UpdateReservation(p, id, body) ==
    /\ Free(p)
    /\ req' = [req EXCEPT ![p] =
            [Begin(p, "update", "reservation.update") EXCEPT !.id = id, !.body = body]]
    /\ UNCHANGED store

\* Lines 110-119: a field whose value is undefined is left as it is.
UpdatedReservation(old, body) ==
    [old EXCEPT
        !.date = IF body.date # "" THEN NewDate(body.date) ELSE @,
        !.time = IF body.time # "" THEN body.time ELSE @,
        !.people = IF ~Falsy(body.people) THEN ParseInt(body.people) ELSE @,
        !.status = IF body.status # "" THEN body.status ELSE @]

\* An update that also frees the table when it sets status cancelled.
UpdateUpdateFreesTable(p) ==
    /\ At(p, "update", "reservation.update")
    /\ UNCHANGED served
    /\ LET r == Called(req[p]) IN
       IF r.id \notin DOMAIN reservations
       THEN /\ req' = [req EXCEPT ![p] =
                    ErrorMiddleware(Missed(r), HttpError(404, "Reservation not found"))]
            /\ UNCHANGED store
       ELSE /\ reservations' =
                    [reservations EXCEPT ![r.id] = UpdatedReservation(@, r.body)]
            /\ tables' =
                    [t \in DOMAIN tables |->
                        IF r.body.status = "cancelled" /\ reservations[r.id].tableId = t
                        THEN [tables[t] EXCEPT !.isAvailable = TRUE]
                        ELSE tables[t]]
            /\ req' = [req EXCEPT ![p] = Respond(r, 200, "")]
            /\ UNCHANGED <<users, nextResId, deleted, overtaken, nextUserId, nextTableId>>

\* Lines 110-128: one Store call; P2025 is answered 404.
UpdateUpdate(p) ==
    /\ At(p, "update", "reservation.update")
    /\ UNCHANGED served
    /\ LET r == Called(req[p]) IN
       IF \/ (r.body.date # "" /\ NewDate(r.body.date) = InvalidDate)
          \/ (~Falsy(r.body.people) /\ ParseIntNaN(r.body.people))
       THEN /\ req' = [req EXCEPT ![p] =
                    ErrorMiddleware(r, PrismaError("Invalid value for argument"))]
            /\ UNCHANGED store
       ELSE IF r.id \notin DOMAIN reservations
       THEN /\ req' = [req EXCEPT ![p] =
                    ErrorMiddleware(Missed(r), HttpError(404, "Reservation not found"))]
            /\ UNCHANGED store
       ELSE /\ reservations' =
                    [reservations EXCEPT ![r.id] = UpdatedReservation(@, r.body)]
            /\ req' = [req EXCEPT ![p] = Respond(r, 200, "")]
            /\ UNCHANGED <<users, tables, nextResId, deleted, overtaken, nextUserId, nextTableId>>

\* ------------------------------------------------- PATCH /api/tables/:id
\* Table ids a request may name in its path: the ids handed out so far
\* and one that never was.
TablePathIds == 1..nextTableId

PatchBodies ==
    { NoBody,
      [NoBody EXCEPT !.hasAvailable = TRUE, !.isAvailable = TRUE],
      [NoBody EXCEPT !.hasAvailable = TRUE, !.isAvailable = FALSE],
      [NoBody EXCEPT !.name = "Window", !.nameType = "string"] }

\* name && typeof name === 'string'
NameValid(body) == body.name # "" /\ body.nameType = "string"

\* capacity && Number.isInteger(capacity) && capacity >= 1
CapacityValid(v) ==
    /\ ~Falsy(v)
    /\ v.kind = "number" /\ v.halves % 2 = 0
    /\ v.halves >= 2

\* tables.js lines 123-132: no field passes the checks
NoUpdates(body) ==
    /\ ~NameValid(body)
    /\ ~CapacityValid(body.capacity)
    /\ ~body.hasAvailable

\* A PATCH that sends whatever it got to the Store.
PatchTableNoCheck(p, id, body) ==
    /\ Free(p)
    /\ req' = [req EXCEPT ![p] =
            [Begin(p, "patchTable", "table.update") EXCEPT !.id = id, !.body = body]]
    /\ UNCHANGED store

PatchTable(p, id, body) ==
    /\ Free(p)
    /\ LET r == [Begin(p, "patchTable", "table.update") EXCEPT !.id = id, !.body = body]
       IN req' = [req EXCEPT ![p] =
            IF NoUpdates(body)
            THEN ErrorMiddleware(r, HttpError(400, "No valid fields to update"))
            ELSE r]
    /\ UNCHANGED store

\* tables.js lines 134-149
PatchTableUpdate(p) ==
    /\ At(p, "patchTable", "table.update")
    /\ UNCHANGED served
    /\ LET r == Called(req[p]) IN
       IF r.id \notin DOMAIN tables
       THEN /\ req' = [req EXCEPT ![p] =
                    ErrorMiddleware(Missed(r), HttpError(404, "Table with id :id not found"))]
            /\ UNCHANGED store
       ELSE /\ tables' = [tables EXCEPT ![r.id] =
                    [@ EXCEPT
                        !.name = IF NameValid(r.body) THEN r.body.name ELSE @,
                        !.capacity = IF CapacityValid(r.body.capacity)
                                     THEN r.body.capacity.halves \div 2 ELSE @,
                        !.isAvailable = IF r.body.hasAvailable THEN r.body.isAvailable ELSE @]]
            /\ req' = [req EXCEPT ![p] = Respond(r, 200, "")]
            /\ UNCHANGED <<users, reservations, nextResId, deleted, overtaken, nextUserId, nextTableId>>

\* ------------------------------------------------ DELETE /api/tables/:id
DeleteTable(p, id) ==
    /\ Free(p)
    /\ req' = [req EXCEPT ![p] = [Begin(p, "deleteTable", "table.delete") EXCEPT !.id = id]]
    /\ UNCHANGED store

\* tables.js lines 157-171; Reservation.tableId is an optional relation,
\* so the Store sets it NULL in the reservations of a deleted table.
DeleteTableDelete(p) ==
    /\ At(p, "deleteTable", "table.delete")
    /\ UNCHANGED served
    /\ LET r == Called(req[p]) IN
       IF r.id \notin DOMAIN tables
       THEN /\ req' = [req EXCEPT ![p] =
                    ErrorMiddleware(Missed(r), HttpError(404, "Table with id :id not found"))]
            /\ UNCHANGED store
       ELSE /\ tables' = [t \in DOMAIN tables \ {r.id} |-> tables[t]]
            /\ reservations' =
                    [x \in DOMAIN reservations |->
                        IF reservations[x].tableId = r.id
                        THEN [reservations[x] EXCEPT !.tableId = Null]
                        ELSE reservations[x]]
            /\ req' = [req EXCEPT ![p] = Respond(r, 204, "")]
            /\ UNCHANGED <<users, nextResId, deleted, overtaken, nextUserId, nextTableId>>

\* --------------------------------------------------- POST /api/tables
\* Bodies of POST /api/tables: a valid one, and bodies whose name or
\* capacity is missing or of the wrong kind.
TableBody(name, nameType, capacity) ==
    [NoBody EXCEPT !.name = name, !.nameType = nameType, !.capacity = capacity]

PostTableBodies ==
    { TableBody("Patio", "string", Num(12)),
      TableBody("", "undefined", Num(12)),
      TableBody("", "string", Num(12)),
      TableBody("5", "number", Num(12)),
      TableBody("Patio", "string", Undefined),
      TableBody("Patio", "string", Num(5)),
      TableBody("Patio", "string", Num(0)),
      TableBody("Patio", "string", Num(-2)),
      TableBody("Patio", "string", [kind |-> "numstr", halves |-> 12]) }

\* tables.js lines 65-73
PostTable(p, body) ==
    /\ Free(p)
    /\ LET r == [Begin(p, "postTable", "table.create") EXCEPT !.body = body]
       IN req' = [req EXCEPT ![p] =
            IF ~NameValid(body) \/ ~CapacityValid(body.capacity)
            THEN ErrorMiddleware(r, HttpError(400,
                    "Name (string) and valid capacity (positive integer) are required"))
            ELSE r]
    /\ UNCHANGED store

\* tables.js lines 75-79
PostTableCreate(p) ==
    /\ At(p, "postTable", "table.create")
    /\ UNCHANGED served
    /\ LET r == Called(req[p]) IN
       /\ tables' =
            [t \in DOMAIN tables \cup {nextTableId} |->
                IF t = nextTableId
                THEN [name |-> r.body.name, capacity |-> r.body.capacity.halves \div 2,
                      isAvailable |-> TRUE]
                ELSE tables[t]]
       /\ nextTableId' = nextTableId + 1
       /\ req' = [req EXCEPT ![p] = [Respond(r, 201, "") EXCEPT !.created = nextTableId]]
       /\ UNCHANGED <<users, reservations, nextResId, deleted, overtaken, nextUserId>>

\* ---------------------------------------------------- POST /api/users
UserBody(username, email, password, isAdmin) ==
    [NoBody EXCEPT !.username = username, !.email = email,
                   !.password = password, !.isAdmin = isAdmin]

PostUserBodies ==
    { UserBody("Bob", "bob@example.com", "secret", "undefined"),
      UserBody("Bob", "bob@example.com", "secret", "true"),
      UserBody("Bob", "bob@example.com", "secret", "text"),
      UserBody("Bob", "alice@example.com", "secret", "undefined"),
      UserBody("", "bob@example.com", "secret", "undefined"),
      UserBody("Bob", "", "secret", "undefined"),
      UserBody("Bob", "bob@example.com", "", "undefined") }

\* users.js lines 8-14
PostUser(p, body) ==
    /\ Free(p)
    /\ LET r == [Begin(p, "postUser", "user.create") EXCEPT !.body = body]
       IN req' = [req EXCEPT ![p] =
            IF body.username = "" \/ body.email = "" \/ body.password = ""
            THEN ErrorMiddleware(r, HttpError(400,
                    "Username, email or password not specified."))
            ELSE r]
    /\ UNCHANGED store

\* Users other than id that hold the e-mail address (User.email is @unique).
EmailTaken(email, id) ==
    { u \in DOMAIN users \ {id} : users[u].email = email }

\* users.js lines 16-20: isAdmin || false is handed to the Store client,
\* which refuses a value that is no boolean; a second user with the same
\* e-mail violates the unique constraint.
PostUserCreate(p) ==
    /\ At(p, "postUser", "user.create")
    /\ UNCHANGED served
    /\ LET r == Called(req[p]) IN
       IF r.body.isAdmin = "text"
       THEN /\ req' = [req EXCEPT ![p] =
                    ErrorMiddleware(r, PrismaError("Invalid value for argument isAdmin"))]
            /\ UNCHANGED store
       ELSE IF EmailTaken(r.body.email, 0) # {}
       THEN /\ req' = [req EXCEPT ![p] =
                    ErrorMiddleware(r, PrismaError("Unique constraint failed"))]
            /\ UNCHANGED store
       ELSE /\ users' =
                    [u \in DOMAIN users \cup {nextUserId} |->
                        IF u = nextUserId
                        THEN [username |-> r.body.username, email |-> r.body.email,
                              password |-> r.body.password,
                              isAdmin |-> (r.body.isAdmin = "true")]
                        ELSE users[u]]
            /\ nextUserId' = nextUserId + 1
            /\ req' = [req EXCEPT ![p] = [Respond(r, 201, "") EXCEPT !.created = nextUserId]]
            /\ UNCHANGED <<tables, reservations, nextResId, deleted, overtaken, nextTableId>>

\* ------------------------------------------------ PATCH /api/users/:id
\* User ids a request may name in its path.
UserPathIds == 1..nextUserId

PatchUserBodies ==
    { NoBody,
      [NoBody EXCEPT !.username = "Alicia"],
      [NoBody EXCEPT !.email = "bob@example.com"],
      [NoBody EXCEPT !.isAdmin = "true"],
      [NoBody EXCEPT !.isAdmin = "text"] }

\* users.js lines 63-69: Object.keys(updates).length === 0
NoUserUpdates(body) ==
    /\ body.username = ""
    /\ body.email = ""
    /\ body.password = ""
    /\ body.isAdmin = "undefined"

PatchUser(p, id, body) ==
    /\ Free(p)
    /\ LET r == [Begin(p, "patchUser", "user.update") EXCEPT !.id = id, !.body = body]
       IN req' = [req EXCEPT ![p] =
            IF NoUserUpdates(body)
            THEN ErrorMiddleware(r, HttpError(400, "No fields to update"))
            ELSE r]
    /\ UNCHANGED store

\* users.js lines 75-88: P2025 is answered 404.
PatchUserUpdate(p) ==
    /\ At(p, "patchUser", "user.update")
    /\ UNCHANGED served
    /\ LET r == Called(req[p]) IN
       IF r.body.isAdmin = "text"
       THEN /\ req' = [req EXCEPT ![p] =
                    ErrorMiddleware(r, PrismaError("Invalid value for argument isAdmin"))]
            /\ UNCHANGED store
       ELSE IF r.id \notin DOMAIN users
       THEN /\ req' = [req EXCEPT ![p] =
                    ErrorMiddleware(Missed(r), HttpError(404, "User with id :id not found"))]
            /\ UNCHANGED store
       ELSE IF r.body.email # "" /\ EmailTaken(r.body.email, r.id) # {}
       THEN /\ req' = [req EXCEPT ![p] =
                    ErrorMiddleware(r, PrismaError("Unique constraint failed"))]
            /\ UNCHANGED store
       ELSE /\ users' = [users EXCEPT ![r.id] =
                    [@ EXCEPT
                        !.username = IF r.body.username # "" THEN r.body.username ELSE @,
                        !.email = IF r.body.email # "" THEN r.body.email ELSE @,
                        !.password = IF r.body.password # "" THEN r.body.password ELSE @,
                        !.isAdmin = IF r.body.isAdmin # "undefined"
                                    THEN r.body.isAdmin = "true" ELSE @]]
            /\ req' = [req EXCEPT ![p] = Respond(r, 200, "")]
            /\ UNCHANGED <<tables, reservations, nextResId, deleted, overtaken,
                           nextUserId, nextTableId>>

\* ----------------------------------------------- DELETE /api/users/:id
DeleteUser(p, id) ==
    /\ Free(p)
    /\ req' = [req EXCEPT ![p] = [Begin(p, "deleteUser", "user.delete") EXCEPT !.id = id]]
    /\ UNCHANGED store

\* The handler ends without calling res or next: no answer is sent.
Lost(r) == [r EXCEPT !.pc = "lost"]

\* users.js lines 103-108 when the Store signals P2025: `id` is declared
\* inside the try block (line 94) and is not in scope in the catch block,
\* so building the 404 message throws a ReferenceError out of the handler.
\* The rejected promise of the async handler is dropped by a router that
\* does not await handlers (no answer) and passed to the error middleware
\* by one that does (500).
DeleteUserMissing(r) ==
    { Lost(r), ErrorMiddleware(r, PrismaError("id is not defined")) }

\* users.js lines 94-110.  Reservation.userId is a required relation: the
\* Store refuses to delete a user that reservations refer to.
DeleteUserDelete(p) ==
    /\ At(p, "deleteUser", "user.delete")
    /\ UNCHANGED served
    /\ LET r == Called(req[p]) IN
       IF r.id \notin DOMAIN users
       THEN /\ \E out \in DeleteUserMissing(Missed(r)) : req' = [req EXCEPT ![p] = out]
            /\ UNCHANGED store
       ELSE IF \E x \in DOMAIN reservations : reservations[x].userId = r.id
       THEN /\ req' = [req EXCEPT ![p] =
                    ErrorMiddleware(r, PrismaError("Foreign key constraint failed"))]
            /\ UNCHANGED store
       ELSE /\ users' = [u \in DOMAIN users \ {r.id} |-> users[u]]
            /\ req' = [req EXCEPT ![p] = Respond(r, 204, "")]
            /\ UNCHANGED <<tables, reservations, nextResId, deleted, overtaken,
                           nextUserId, nextTableId>>

\* ------------------------------------------------------- Store failures
\* A failure handling that undoes the insert of the failed create.
StoreFailsRollsBack(p) ==
    /\ ~Free(p)
    /\ UNCHANGED served
    /\ req' = [req EXCEPT ![p] =
            ErrorMiddleware(Called(req[p]), PrismaError("Can't reach database server"))]
    /\ reservations' =
            [x \in DOMAIN reservations \ {req[p].created} |-> reservations[x]]
    /\ UNCHANGED <<users, tables, nextResId, deleted, overtaken, nextUserId, nextTableId>>

\* The Store call a handler waits for fails (connection lost, timeout):
\* the client throws an error without status, every handler passes it to
\* the error middleware, nothing is written.
StoreFails(p) ==
    /\ ~Free(p)
    /\ UNCHANGED served
    /\ req' = [req EXCEPT ![p] =
            ErrorMiddleware(Called(req[p]), PrismaError("Can't reach database server"))]
    /\ UNCHANGED store

\* ---------------------------------------------------------- specification
\* The Store calls of the reservation assignment engine.
EngineStep(p) ==
    \/ CreateTableFindFirst(p)
    \/ CreateReservationFindFirst(p)
    \/ CreateReservationCreate(p)
    \/ CreateTableUpdate(p)
    \/ CancelFindUnique(p)
    \/ CancelUpdate(p)
    \/ CancelTableUpdate(p)
    \/ DeleteFindUnique(p)
    \/ DeleteDelete(p)
    \/ DeleteTableUpdate(p)

EngineRequest(p, max) ==
    \/ \E b \in CreateBodies :
            Accept(max) /\ CreateReservation(p, b.date, b.time, b.people, b.userId)
    \/ \E id \in ResIds : Accept(max) /\ CancelReservation(p, id)
    \/ \E id \in ResIds : Accept(max) /\ DeleteReservation(p, id)

CrudRequest(p, max) ==
    \/ \E id \in ResIds : Accept(max) /\ GetReservation(p, id)
    \/ \E id \in ResIds, b \in PutBodies : Accept(max) /\ UpdateReservation(p, id, b)
    \/ \E id \in TablePathIds, b \in PatchBodies : Accept(max) /\ PatchTable(p, id, b)
    \/ \E id \in TablePathIds : Accept(max) /\ DeleteTable(p, id)

CrudStep(p) ==
    \/ GetFindUnique(p)
    \/ UpdateUpdate(p)
    \/ PatchTableUpdate(p)
    \/ DeleteTableDelete(p)

\* One request at a time, each run to completion: the reservation routes
\* and the table routes that write the records they read, no Store
\* failure.
Next ==
    \/ EngineRequest(1, MaxReq)
    \/ EngineStep(1)
    \/ CrudRequest(1, MaxReq)
    \/ CrudStep(1)

Spec == Init /\ [][Next]_vars

\* One request at a time, only the three engine operations, no Store
\* failure and no other write.
NextEngine ==
    \/ EngineRequest(1, MaxEngineReq)
    \/ EngineStep(1)

SpecEngine == Init /\ [][NextEngine]_vars

\* One request at a time over the same routes, with Store calls that may
\* fail.
NextFaulty ==
    \/ EngineRequest(1, MaxFaultyReq)
    \/ EngineStep(1)
    \/ CrudRequest(1, MaxFaultyReq)
    \/ CrudStep(1)
    \/ StoreFails(1)

SpecFaulty == Init /\ [][NextFaulty]_vars

\* Concurrent CreateReservation requests, one per slot, whose Store calls
\* interleave at every await; no Store failure.
RaceBodies ==
    { Body("2025-06-15", "19:00", Num(4), 1),
      Body("2025-06-15T00:00:00.000Z", "19:00", Num(4), 1),
      Body("2025-06-15", "19:00", Num(8), 1),
      Body("2025-06-15", "7:00 PM", Num(4), 1),
      Body("2025-06-16", "19:00", Num(8), 1) }

NextRace ==
    \E p \in Procs :
        \/ \E b \in RaceBodies :
                /\ req[p].op = "none"
                /\ CreateReservation(p, b.date, b.time, b.people, b.userId)
                /\ UNCHANGED served
        \/ CreateTableFindFirst(p)
        \/ CreateReservationFindFirst(p)
        \/ CreateReservationCreate(p)
        \/ CreateTableUpdate(p)

SpecRace == Init /\ [][NextRace]_vars

\* Create, cancel and delete requests that the runtime interleaves at every
\* await: a slot takes its next request when its last one has ended, while
\* the request of the other slot may be at any Store call.  No Store
\* failure, no other write.
NextInterleaved ==
    \E p \in Procs :
        \/ \E b \in RaceBodies :
                /\ Accept(MaxInterleavedReq)
                /\ CreateReservation(p, b.date, b.time, b.people, b.userId)
        \/ \E id \in ResIds : Accept(MaxInterleavedReq) /\ CancelReservation(p, id)
        \/ \E id \in ResIds : Accept(MaxInterleavedReq) /\ DeleteReservation(p, id)
        \/ EngineStep(p)

\* The Store after POST {date: '2025-06-15', time: '19:00', people: 4,
\* userId: 1} has been served from the initial state with table 2 as its
\* candidate: reservation 1 is booked on table 2, which is flagged
\* unavailable.
InitBooked ==
    /\ users = [u \in SeedUsers |-> SeedUser]
    /\ tables = [t \in TableIds |->
                    [name |-> "Table", capacity |-> Capacity(t), isAvailable |-> t # 2]]
    /\ reservations =
            [x \in {1} |-> NewReservation(
                [date |-> "2025-06-15", time |-> "19:00", people |-> Num(8),
                 userId |-> 1, table |-> 2])]
    /\ nextResId = 2
    /\ nextUserId = 2
    /\ nextTableId = 3
    /\ deleted = {}
    /\ overtaken = {}
    /\ req = [p \in Procs |-> IdleReq]
    /\ served = 0

SpecInterleaved == InitBooked /\ [][NextInterleaved]_vars

\* Bodies of PATCH /api/tables/:id, with fields of the wrong kind as well.
PatchTableBodies ==
    PatchBodies \cup
    { [NoBody EXCEPT !.name = "5", !.nameType = "number"],
      [NoBody EXCEPT !.capacity = Num(5)],
      [NoBody EXCEPT !.capacity = Num(0)],
      [NoBody EXCEPT !.capacity = Num(12)] }

\* One request at a time over the table and user routes, and the create
\* of reservations for the users; no Store failure.
NextCrud ==
    \/ \E b \in PostTableBodies : Accept(MaxCrudReq) /\ PostTable(1, b)
    \/ \E id \in TablePathIds, b \in PatchTableBodies :
            Accept(MaxCrudReq) /\ PatchTable(1, id, b)
    \/ \E id \in TablePathIds : Accept(MaxCrudReq) /\ DeleteTable(1, id)
    \/ \E b \in PostUserBodies : Accept(MaxCrudReq) /\ PostUser(1, b)
    \/ \E id \in UserPathIds, b \in PatchUserBodies :
            Accept(MaxCrudReq) /\ PatchUser(1, id, b)
    \/ \E id \in UserPathIds : Accept(MaxCrudReq) /\ DeleteUser(1, id)
    \/ \E b \in RaceBodies, u \in UserPathIds :
            Accept(MaxCrudReq) /\ CreateReservation(1, b.date, b.time, b.people, u)
    \/ PostTableCreate(1)
    \/ PatchTableUpdate(1)
    \/ DeleteTableDelete(1)
    \/ PostUserCreate(1)
    \/ PatchUserUpdate(1)
    \/ DeleteUserDelete(1)
    \/ CreateTableFindFirst(1)
    \/ CreateReservationFindFirst(1)
    \/ CreateReservationCreate(1)
    \/ CreateTableUpdate(1)

SpecCrud == Init /\ [][NextCrud]_vars

\* The Store calls of the table and user routes and of the create: each
\* is the continuation of a handler after an await.
CrudStoreStep ==
    \/ PostTableCreate(1)
    \/ PatchTableUpdate(1)
    \/ DeleteTableDelete(1)
    \/ PostUserCreate(1)
    \/ PatchUserUpdate(1)
    \/ DeleteUserDelete(1)
    \/ CreateTableFindFirst(1)
    \/ CreateReservationFindFirst(1)
    \/ CreateReservationCreate(1)
    \/ CreateTableUpdate(1)

\* ... where every Store call returns and the event loop resumes the
\* handler that awaits it.
SpecCrudFair == SpecCrud /\ WF_vars(CrudStoreStep)

\* ------------------------------------------------------------ properties
\* The request of the sequential specifications and its completion.
R == req[1]

Finished(op) == R.op = op /\ R.pc = "done"

\* Reservations of the relation res that hold table t at (date d, time).
ActiveAt(res, t, d, time) ==
    { x \in DOMAIN res :
        /\ res[x].tableId = t
        /\ res[x].date = d
        /\ res[x].time = time
        /\ res[x].status \in Active }

\* I1: no table is the target of two active reservations for one
\* (date, time) pair.
I1 ==
    \A x, y \in DOMAIN reservations :
        ( /\ x # y
          /\ reservations[x].tableId # Null
          /\ reservations[x].tableId = reservations[y].tableId
          /\ reservations[x].date = reservations[y].date
          /\ reservations[x].time = reservations[y].time
          /\ reservations[x].status \in Active )
        => reservations[y].status \notin Active

\* C1: in every state reachable from an empty reservation set by create,
\* cancel and delete requests that each run to completion, without Store
\* failures or other writes, no table has more than one booked or seated
\* reservation for the same (date, time).
C1_NoDoubleBooking == I1

\* C1 witness: a create was refused by the conflict check because its
\* candidate table, though flagged available, holds a booked reservation
\* for the requested date and time.
C1_Witness ==
    /\ Finished("create")
    /\ R.status = 400
    /\ R.message = "Table is already reserved for this time"
    /\ tables[R.table].isAvailable
    /\ ActiveAt(reservations, R.table, NewDate(R.date), R.time) # {}

\* people is a positive number (a numeric string counts as its number).
PositivePeople(v) == v.kind \in {"number", "numstr"} /\ v.halves > 0

\* capacity c >= people, for the number people that was sent.
CapacityHolds(c, v) == 2 * c >= v.halves

\* The body of the finished create names a date, a time and a user, and a
\* party size that is a positive number.
FieldsPresent == R.date # "" /\ R.time # "" /\ R.userId # 0 /\ PositivePeople(R.people)

\* ... and the date is a date and the user exists.
ValidCreateInput == FieldsPresent /\ NewDate(R.date) # InvalidDate /\ R.userId \in DOMAIN users

\* Table t could seat the party when the request arrived.
Suitable(t) ==
    /\ t \in DOMAIN R.preTables
    /\ CapacityHolds(R.preTables[t].capacity, R.people)
    /\ R.preTables[t].isAvailable

\* Table t held an active reservation for the requested date and time when
\* the request arrived.
Taken(t) == ActiveAt(R.preReservations, t, NewDate(R.date), R.time) # {}

\* The create was answered 201, its reservation is booked and bound to the
\* selected table, and that table is unavailable.
CreateSucceeded ==
    /\ R.status = 201
    /\ R.created \in DOMAIN reservations
    /\ reservations[R.created].status = "booked"
    /\ reservations[R.created].tableId = R.table
    /\ R.table \in DOMAIN tables
    /\ ~tables[R.table].isAvailable

StoreUntouched == reservations = R.preReservations /\ tables = R.preTables

\* C2 as stated: a valid create succeeds whenever some table has capacity
\* >= people, is available and has no booked or seated reservation for the
\* same date and time.  (Valid is read in the claim's favour: the date is
\* also a date.)
C2_Original ==
    (Finished("create") /\ ValidCreateInput /\ \E t \in TableIds : Suitable(t) /\ ~Taken(t))
        => CreateSucceeded

\* C2 amended: a valid create succeeds whenever the one table the candidate
\* query returned (capacity >= parseInt(people), available) has no booked
\* or seated reservation for the same date and time; it is answered 201,
\* the reservation is booked and the table unavailable.
C2_CandidateFreeSucceeds ==
    ( /\ Finished("create")
      /\ ValidCreateInput
      /\ R.table \in DOMAIN R.preTables
      /\ R.preTables[R.table].capacity >= ParseInt(R.people)
      /\ R.preTables[R.table].isAvailable
      /\ ~Taken(R.table) )
        => CreateSucceeded

\* C2 witness: a create succeeded on a free candidate while another table
\* that was available and large enough held a reservation for that slot.
C2_Witness ==
    /\ Finished("create")
    /\ ValidCreateInput
    /\ CreateSucceeded
    /\ ~Taken(R.table)
    /\ \E t \in TableIds \ {R.table} : Suitable(t) /\ Taken(t)

\* C3 as stated: a create whose party fits no available table (no table
\* with capacity >= people and availability true) fails with 400 'No
\* available table for this party size' and writes nothing.
C3_Original ==
    (Finished("create") /\ FieldsPresent /\ \A t \in TableIds : ~Suitable(t))
        => /\ R.status = 400
           /\ R.message = "No available table for this party size"
           /\ StoreUntouched

\* C3 for whole-number party sizes, where parseInt changes nothing.
C3_WholeNumbers == (R.people.halves % 2 = 0) => C3_Original

\* C4 as stated: when the only available table with capacity >= people
\* holds a booked or seated reservation for the same date and time, the
\* create fails with 400 'Table is already reserved for this time' and
\* writes nothing.
C4_Original ==
    ( /\ Finished("create")
      /\ ValidCreateInput
      /\ \E t \in TableIds :
            /\ Suitable(t)
            /\ Taken(t)
            /\ \A u \in TableIds \ {t} : ~Suitable(u) )
        => /\ R.status = 400
           /\ R.message = "Table is already reserved for this time"
           /\ StoreUntouched

\* C4 for whole-number party sizes, where parseInt changes nothing.
C4_WholeNumbers == (R.people.halves % 2 = 0) => C4_Original

\* C5 as stated: a create whose date, time or userId is missing, or whose
\* people is missing or no positive number, fails with 400 before any
\* Store call is issued and leaves the Store unchanged.
C5_Original ==
    (Finished("create") /\ ~FieldsPresent)
        => /\ R.status = 400
           /\ R.message = "Date, time, people (positive number), and userId are required"
           /\ R.calls = <<>>
           /\ StoreUntouched

\* The table the reservation named by the finished request was bound to
\* when the request arrived.
BoundTable == R.preReservations[R.id].tableId

Existed == R.id \in DOMAIN R.preReservations

\* C6: a cancel of an existing reservation, whatever its status, run to
\* completion alone, leaves the reservation with status cancelled; its
\* bound table, if any, reads available; with no bound table no table
\* record is written.
C6_CancelThenRead ==
    (Finished("cancel") /\ Existed)
        => /\ R.status = 200
           /\ R.id \in DOMAIN reservations
           /\ reservations[R.id].status = "cancelled"
           /\ IF BoundTable # Null
              THEN BoundTable \in DOMAIN tables /\ tables[BoundTable].isAvailable
              ELSE tables = R.preTables /\ R.calls = <<"reservation.findUnique", "reservation.update">>

\* C6 witness: a seated reservation whose table was unavailable has been
\* cancelled and the table reads available.
C6_Witness ==
    /\ Finished("cancel")
    /\ Existed
    /\ R.status = 200
    /\ R.preReservations[R.id].status = "seated"
    /\ BoundTable # Null
    /\ ~R.preTables[BoundTable].isAvailable
    /\ tables[BoundTable].isAvailable

\* C6, the other case: a reservation without table has been cancelled.
C6_WitnessUnbound ==
    /\ Finished("cancel")
    /\ Existed
    /\ R.status = 200
    /\ BoundTable = Null

\* C7: a delete of an existing reservation, run to completion alone, is
\* answered 204 without body, removes the record and leaves the bound
\* table, if any, available; a later GET of an id that a delete removed is
\* answered 404.
C7_DeleteThenGet ==
    /\ (Finished("delete") /\ Existed)
        => /\ R.status = 204
           /\ R.message = ""
           /\ R.id \notin DOMAIN reservations
           /\ R.id \in deleted
           /\ BoundTable # Null =>
                BoundTable \in DOMAIN tables /\ tables[BoundTable].isAvailable
    /\ (Finished("get") /\ R.id \in deleted)
        => R.status = 404 /\ R.message = "Reservation not found"

\* C7 witness: a booked reservation whose table was unavailable has been
\* deleted.
C7_Witness ==
    /\ Finished("delete")
    /\ Existed
    /\ R.status = 204
    /\ BoundTable # Null
    /\ ~R.preTables[BoundTable].isAvailable
    /\ tables[BoundTable].isAvailable
    /\ R.id \notin DOMAIN reservations

\* C7, the read: a GET of a deleted reservation has been answered.
C7_WitnessGet == Finished("get") /\ R.id \in deleted

\* C8: when two concurrent creates were both answered 201 for the same
\* table, date and time, the Store holds their two booked reservations on
\* that table for that (date, time): I1 is violated.
C8_RaceDoubleBooks ==
    \A p, q \in Procs :
        ( /\ p # q
          /\ req[p].pc = "done" /\ req[p].status = 201
          /\ req[q].pc = "done" /\ req[q].status = 201
          /\ req[p].table = req[q].table
          /\ NewDate(req[p].date) = NewDate(req[q].date)
          /\ req[p].time = req[q].time )
        => /\ req[p].created # req[q].created
           /\ \A x \in {req[p].created, req[q].created} :
                /\ x \in DOMAIN reservations
                /\ reservations[x].status = "booked"
                /\ reservations[x].tableId = req[p].table
                /\ reservations[x].date = NewDate(req[p].date)
                /\ reservations[x].time = req[p].time
           /\ ~I1

\* C8 witness: both requests selected the same table while it was the only
\* candidate, both passed the conflict check and both were answered 201.
C8_Witness ==
    \E p, q \in Procs :
        /\ p # q
        /\ req[p].pc = "done" /\ req[p].status = 201
        /\ req[q].pc = "done" /\ req[q].status = 201
        /\ req[p].table = req[q].table
        /\ req[p].people = Num(8) /\ req[q].people = Num(8)
        /\ NewDate(req[p].date) = NewDate(req[q].date)
        /\ req[p].time = req[q].time
        /\ ~I1

\* C9: when the insert of a create succeeded and its table update failed,
\* the request is answered 500, the reservation stays in the Store, booked
\* and bound to the table, and the table still reads available.
C9_PartialFailure ==
    (Finished("create") /\ R.created # Null /\ R.status # 201)
        => /\ R.status = 500
           /\ R.calls = <<"table.findFirst", "reservation.findFirst",
                          "reservation.create", "table.update">>
           /\ R.created \in DOMAIN reservations
           /\ reservations[R.created].status = "booked"
           /\ reservations[R.created].tableId = R.table
           /\ tables[R.table].isAvailable

\* C9 witness: a create has failed at its table update.
C9_Witness ==
    /\ Finished("create")
    /\ R.created # Null
    /\ R.status = 500
    /\ R.created \in DOMAIN reservations

\* C10: GET, cancel and DELETE of an id without reservation record are
\* answered 404 'Reservation not found' after the lookup alone, and every
\* Reservation and Table record is as it was.
C10_NotFound ==
    (R.op \in {"get", "cancel", "delete"} /\ R.pc = "done" /\ ~Existed)
        => /\ R.status = 404
           /\ R.message = "Reservation not found"
           /\ R.calls = <<"reservation.findUnique">>
           /\ StoreUntouched

\* C10 witness: a cancel of an id that a delete removed, with other
\* records in the Store, has been answered.
C10_Witness ==
    /\ Finished("cancel")
    /\ ~Existed
    /\ R.id \in deleted
    /\ DOMAIN reservations # {}
    /\ R.status = 404

\* C11 as stated: a cancel, delete or update of a reservation whose Store
\* mutation found the record gone (another request deleted it after the
\* lookup) is answered 404, never 500.
C11_Original ==
    \A p \in Procs :
        ( /\ req[p].op \in {"cancel", "delete", "update"}
          /\ req[p].pc = "done"
          /\ req[p].miss )
            => req[p].status = 404

\* The finished request of the sequential specifications, answered or not.
Ended(op) == R.op = op /\ R.pc \in {"done", "lost"}

\* C12 as stated: DELETE /users/:id for an id without user record is
\* answered 404 with the shared error shape; for an existing user (one no
\* reservation refers to) it is answered 204 and the record is removed.
C12_Original ==
    /\ (Ended("deleteUser") /\ R.id \notin DOMAIN R.preUsers)
        => R.pc = "done" /\ R.status = 404 /\ R.message # ""
    /\ ( /\ Ended("deleteUser")
         /\ R.id \in DOMAIN R.preUsers
         /\ \A x \in DOMAIN reservations : reservations[x].userId # R.id )
        => R.pc = "done" /\ R.status = 204 /\ R.id \notin DOMAIN users

\* C12, the part that holds: a DELETE of an existing user that no
\* reservation refers to is answered 204 and removes the record.
C12_ExistingDeleted ==
    ( /\ Ended("deleteUser")
      /\ R.id \in DOMAIN R.preUsers
      /\ \A x \in DOMAIN reservations : reservations[x].userId # R.id )
        => R.pc = "done" /\ R.status = 204 /\ R.id \notin DOMAIN users

\* Between requests: the request of slot 1 has ended or none was made.
Quiescent1 == Free(1)

\* Table t holds a booked or seated reservation.
Held(t) ==
    \E x \in DOMAIN reservations :
        reservations[x].tableId = t /\ reservations[x].status \in Active

\* C13 as stated: after any sequence of create, cancel and delete requests
\* run one at a time, every table whose availability flag is true has no
\* booked or seated reservation bound to it.
C13_Original ==
    Quiescent1 => \A t \in DOMAIN tables : tables[t].isAvailable => ~Held(t)

\* Some POST /tables, POST /users or PATCH request was refused with 400.
Rejected(op) == Ended(op) /\ R.status = 400

\* No valid value for any field a PATCH of a user can update: no non-empty
\* username, email or password and no boolean isAdmin.
NoValidUserField(body) ==
    /\ body.username = ""
    /\ body.email = ""
    /\ body.password = ""
    /\ body.isAdmin \notin {"true", "false"}

\* The request was answered 400 before any Store call, and the Store is as
\* it was.
RefusedUntouched ==
    /\ R.pc = "done"
    /\ R.status = 400
    /\ R.calls = <<>>
    /\ StoreUntouched
    /\ users = R.preUsers

\* C14 as stated: POST /tables with a missing or non-string name or a
\* capacity that is missing, no integer or < 1, POST /users without
\* username, email or password, and PATCH /tables/:id or PATCH /users/:id
\* without any valid updatable field are answered 400, issue no Store call
\* and leave the Store unchanged.
C14_Original ==
    /\ ( /\ Ended("postTable")
         /\ ~(NameValid(R.body) /\ CapacityValid(R.body.capacity)) ) => RefusedUntouched
    /\ ( /\ Ended("postUser")
         /\ (R.body.username = "" \/ R.body.email = "" \/ R.body.password = "") )
            => RefusedUntouched
    /\ (Ended("patchTable") /\ NoUpdates(R.body)) => RefusedUntouched
    /\ (Ended("patchUser") /\ NoValidUserField(R.body)) => RefusedUntouched

\* C14 amended: as stated, except that PATCH /users/:id is refused when it
\* carries no updatable field at all (no non-empty username, email or
\* password, and no isAdmin of any kind).
C14_InputRejected ==
    /\ ( /\ Ended("postTable")
         /\ ~(NameValid(R.body) /\ CapacityValid(R.body.capacity)) ) => RefusedUntouched
    /\ ( /\ Ended("postUser")
         /\ (R.body.username = "" \/ R.body.email = "" \/ R.body.password = "") )
            => RefusedUntouched
    /\ (Ended("patchTable") /\ NoUpdates(R.body)) => RefusedUntouched
    /\ (Ended("patchUser") /\ NoUserUpdates(R.body)) => RefusedUntouched

\* C14 witness: a PATCH of an existing table whose only field is a capacity
\* that is no integer was refused, after the Store had been written.
C14_Witness ==
    /\ Rejected("patchTable")
    /\ R.id \in DOMAIN tables
    /\ R.body.capacity = Num(5)
    /\ tables # [t \in TableIds |-> [name |-> "Table", capacity |-> Capacity(t),
                                     isAvailable |-> TRUE]]

\* C14, the other routes: refused POST /tables, POST /users, PATCH /users.
C14_WitnessPostTable == Rejected("postTable") /\ R.body.capacity = Num(5)
C14_WitnessPostUser == Rejected("postUser") /\ R.body.password = ""
C14_WitnessPatchUser == Rejected("patchUser") /\ R.id \in DOMAIN users

\* The Store calls of a create that runs to its end, in their order.
CreateCalls ==
    <<"table.findFirst", "reservation.findFirst", "reservation.create", "table.update">>

\* C15: a create answered 201 has issued its four Store calls in order,
\* the insert before the table update; the Store differs from the one it
\* found in exactly one new reservation (booked, bound to the selected
\* table and the given user) and in the availability flag of that table,
\* now false; no other Reservation, Table or User record has changed.
C15_WriteSet ==
    (Finished("create") /\ R.status = 201)
        => /\ R.calls = CreateCalls
           /\ R.created \notin DOMAIN R.preReservations
           /\ DOMAIN reservations = DOMAIN R.preReservations \cup {R.created}
           /\ \A x \in DOMAIN R.preReservations : reservations[x] = R.preReservations[x]
           /\ reservations[R.created].status = "booked"
           /\ reservations[R.created].tableId = R.table
           /\ reservations[R.created].userId = R.userId
           /\ R.table \in DOMAIN R.preTables
           /\ tables = [R.preTables EXCEPT ![R.table].isAvailable = FALSE]
           /\ users = R.preUsers

\* C15 witness: a create has succeeded in a Store that held another
\* reservation and another table that was available.
C15_Witness ==
    /\ Finished("create")
    /\ R.status = 201
    /\ DOMAIN R.preReservations # {}
    /\ \E t \in DOMAIN tables \ {R.table} : tables[t].isAvailable

\* Number of times the finished request issued Store call c.
Issued(c) == Cardinality({ i \in DOMAIN R.calls : R.calls[i] = c })

\* C16 as stated: every reservation a create inserted is bound to a table
\* that had capacity >= the requested party size and availability true
\* when the candidate was read, and a create whose candidate failed the
\* conflict check read no second candidate and inserted nothing.
C16_Original ==
    /\ (Finished("create") /\ R.created # Null)
        => /\ R.table \in DOMAIN R.preTables
           /\ CapacityHolds(R.preTables[R.table].capacity, R.people)
           /\ R.preTables[R.table].isAvailable
           /\ R.preReservations = [x \in DOMAIN reservations \ {R.created} |-> reservations[x]]
           /\ reservations[R.created].tableId = R.table
           /\ Issued("table.findFirst") = 1
    /\ (Finished("create") /\ R.message = "Table is already reserved for this time")
        => /\ R.calls = <<"table.findFirst", "reservation.findFirst">>
           /\ R.created = Null
           /\ StoreUntouched

\* C16 for whole-number party sizes, where parseInt changes nothing.
C16_WholeNumbers == (R.people.halves % 2 = 0) => C16_Original

\* C17: a cancel that directly follows a cancel of the same reservation
\* answered 200 is answered 200 too and leaves the Store exactly as the
\* first left it: the reservation cancelled, its bound table available.
C17_RecancelSameState ==
    (Finished("cancel") /\ R.again)
        => /\ R.status = 200
           /\ StoreUntouched
           /\ users = R.preUsers
           /\ reservations[R.id].status = "cancelled"
           /\ BoundTable # Null => tables[BoundTable].isAvailable

\* C17 witness: the second of two cancels in succession of a reservation
\* with a bound table has run its table update and been answered.
C17_Witness ==
    /\ Finished("cancel")
    /\ R.again
    /\ BoundTable # Null
    /\ R.calls = <<"reservation.findUnique", "reservation.update", "table.update">>
    /\ R.status = 200

\* Field of the addressed reservation after a PUT: the value sent, or the
\* old one when the body has none.
PutDate == IF R.body.date # "" THEN NewDate(R.body.date) ELSE R.preReservations[R.id].date
PutTime == IF R.body.time # "" THEN R.body.time ELSE R.preReservations[R.id].time
PutStatus == IF R.body.status # "" THEN R.body.status ELSE R.preReservations[R.id].status
PutPeople ==
    IF R.body.people.kind = "number" /\ R.body.people.halves > 0
    THEN R.body.people.halves \div 2
    ELSE R.preReservations[R.id].people

\* C18: a PUT /reservations/:id issues the one Store call
\* reservation.update (no lookup, no conflict check) and changes no Table
\* or User record; answered 200, it has set the date, time, people and
\* status fields sent in the body on the addressed reservation and has left
\* its tableId and userId and every other reservation as they were;
\* answered otherwise, it has changed nothing.
C18_UpdateFrame ==
    Finished("update")
        => /\ R.calls = <<"reservation.update">>
           /\ tables = R.preTables
           /\ users = R.preUsers
           /\ IF R.status = 200
              THEN /\ Existed
                   /\ DOMAIN reservations = DOMAIN R.preReservations
                   /\ \A x \in DOMAIN reservations \ {R.id} :
                        reservations[x] = R.preReservations[x]
                   /\ reservations[R.id].tableId = R.preReservations[R.id].tableId
                   /\ reservations[R.id].userId = R.preReservations[R.id].userId
                   /\ reservations[R.id].date = PutDate
                   /\ reservations[R.id].time = PutTime
                   /\ reservations[R.id].people = PutPeople
                   /\ reservations[R.id].status = PutStatus
              ELSE reservations = R.preReservations

\* C18 witness: a PUT has set a cancelled reservation back to booked while
\* its table holds another booked reservation for the same date and time.
C18_Witness ==
    /\ Finished("update")
    /\ R.status = 200
    /\ R.body.status = "booked"
    /\ R.preReservations[R.id].status = "cancelled"
    /\ \E x \in DOMAIN reservations \ {R.id} :
        /\ reservations[x].status = "booked"
        /\ reservations[x].tableId = reservations[R.id].tableId
        /\ reservations[x].date = reservations[R.id].date
        /\ reservations[x].time = reservations[R.id].time

\* C18, the flag: a PUT has set a booked reservation to cancelled and its
\* table is still flagged unavailable.
C18_WitnessCancelled ==
    /\ Finished("update")
    /\ R.status = 200
    /\ R.body.status = "cancelled"
    /\ R.preReservations[R.id].status = "booked"
    /\ BoundTable # Null
    /\ ~tables[BoundTable].isAvailable

\* C19 as stated: over create, cancel, delete, PUT /reservations/:id and
\* PATCH /tables/:id requests run one at a time, no table ever has two
\* booked or seated reservations for the same (date, time).
C19_Original == Quiescent1 => I1

\* No request is in flight.
Quiescent == \A p \in Procs : Free(p)

\* C20 as stated: when create, cancel and delete requests interleave at
\* their Store calls, in every state without request in flight every table
\* flagged unavailable has a booked or seated reservation bound to it.
C20_Original ==
    Quiescent => \A t \in DOMAIN tables : ~tables[t].isAvailable => Held(t)

\* C20 amended: ... every table flagged unavailable has a booked or seated
\* reservation bound to it, unless a cancel or delete wrote a reservation
\* of that table between the insert and the table update of the create
\* that made it.
C20_NoLeakUnlessOvertaken ==
    Quiescent =>
        \A t \in DOMAIN tables \ overtaken : ~tables[t].isAvailable => Held(t)

\* C20 witness: two creates whose Store calls interleaved (both selected
\* the same table) have been answered 201, no cancel or delete overtook a
\* create, and the table is unavailable and held.
C20_Witness ==
    /\ Quiescent
    /\ overtaken = {}
    /\ \E p, q \in Procs :
        /\ p # q
        /\ req[p].op = "create" /\ req[p].status = 201
        /\ req[q].op = "create" /\ req[q].status = 201
        /\ req[p].table = req[q].table
        /\ ~tables[req[p].table].isAvailable
        /\ Held(req[p].table)

\* C20, the excepted case: a cancel or delete has overtaken a create.
C20_WitnessOvertaken == Quiescent /\ overtaken # {}

\* C21 as stated: every request whose Store calls have returned is
\* answered exactly once: a handler that has ended has sent one response
\* (its own or the error middleware's), and none has sent two.
C21_Original ==
    \A p \in Procs :
        /\ req[p].answers <= 1
        /\ req[p].pc \in {"done", "lost"} => req[p].answers = 1

\* C21, the part that holds: when every Store call returns, the handler of
\* every request ends, and no request is answered twice.
C21_HandlerEnds == [](~Free(1) => <>Free(1))

C21_AtMostOnce == \A p \in Procs : req[p].answers <= 1

====
